---- MODULE Spec2Model ----
(***************************************************************************)
(* The dataset loader of transformer_lm/datasets.py: load_dataset and its  *)
(* three corpus procedures (wikitext, ptb, enwik8) over an on-disk cache,   *)
(* and the tokenisation / vocabulary / encoding done by _load and enwik8.   *)
(*                                                                          *)
(* A text file is a sequence of characters.  The five characters "<eos>" of *)
(* the end-of-sequence word are one glyph of the alphabet, so a file can    *)
(* hold the literal word <eos>.                                             *)
(***************************************************************************)
EXTENDS Integers, Sequences, FiniteSets, TLC

\* ------------------------------------------------------------------ bounds
MaxChars == 4   \* total characters of the three split files of a corpus
MaxData == 6    \* bytes of the enwik8 entry
MaxByte == 1    \* byte values are 0..MaxByte
MaxLoads == 2   \* loads each caller makes in the concurrent specification

\* --------------------------------------------------------------- alphabet
\* the characters the modelled files are written in
Chars == {"a", "<eos>", " ", "\n"}
\* what str.strip removes
Whitespace == {" ", "\t", "\n"}
Bytes == 0..MaxByte

\* enwik8's num_test_bytes (5000000 in the source, scaled)
num_test_bytes == 2

eos == <<"<eos>">>

Procs == {1, 2}

Names == {"enwik8", "ptb", "wikitext2", "wikitext103", "text8"}

Min(a, b) == IF a < b THEN a ELSE b
Max(a, b) == IF a < b THEN b ELSE a

\* ------------------------------------------------------------ load_dataset
load_dataset_bad(name) ==
  IF name = "enwik8" THEN [proc |-> "enwik8", variant |-> "none"]
  ELSE IF name = "ptb" THEN [proc |-> "ptb", variant |-> "none"]
  ELSE IF name = "wikitext2" THEN [proc |-> "wikitext", variant |-> "2"]
  ELSE [proc |-> "wikitext", variant |-> name]

load_dataset(name) ==
  IF name = "enwik8" THEN [proc |-> "enwik8", variant |-> "none"]
  ELSE IF name = "ptb" THEN [proc |-> "ptb", variant |-> "none"]
  ELSE IF name = "wikitext2" THEN [proc |-> "wikitext", variant |-> "2"]
  ELSE [proc |-> "wikitext", variant |-> "103"]

\* --------------------------------------------------------- text operations
\* fid.readlines(): the file cut after each newline, the newline kept
RECURSIVE readlines(_)
readlines(f) ==
  IF f = <<>> THEN <<>>
  ELSE LET nl == {i \in 1..Len(f) : f[i] = "\n"}
           cut == IF nl = {} THEN Len(f)
                  ELSE CHOOSE i \in nl : \A j \in nl : i <= j
       IN <<SubSeq(f, 1, cut)>> \o readlines(SubSeq(f, cut + 1, Len(f)))

\* l.strip(): leading and trailing whitespace removed
strip(l) ==
  LET ink == {i \in 1..Len(l) : l[i] \notin Whitespace}
  IN IF ink = {} THEN <<>>
     ELSE SubSeq(l, CHOOSE i \in ink : \A j \in ink : i <= j,
                    CHOOSE i \in ink : \A j \in ink : i >= j)

\* a split that drops empty fields, as l.split() would
RECURSIVE split_words(_)
split_words(l) ==
  LET sp == {i \in 1..Len(l) : l[i] = " "}
  IN IF sp = {} THEN (IF l = <<>> THEN <<>> ELSE <<l>>)
     ELSE LET cut == CHOOSE i \in sp : \A j \in sp : i <= j
          IN (IF cut = 1 THEN <<>> ELSE <<SubSeq(l, 1, cut - 1)>>)
             \o split_words(SubSeq(l, cut + 1, Len(l)))

\* l.split(" "): the fields between single spaces, empty fields kept
RECURSIVE split(_)
split(l) ==
  LET sp == {i \in 1..Len(l) : l[i] = " "}
  IN IF sp = {} THEN <<l>>
     ELSE LET cut == CHOOSE i \in sp : \A j \in sp : i <= j
          IN <<SubSeq(l, 1, cut - 1)>> \o split(SubSeq(l, cut + 1, Len(l)))

\* l.strip().split(" ") for every line of the file
tokenize(f) ==
  LET ls == readlines(f)
  IN [i \in 1..Len(ls) |-> split(strip(ls[i]))]

RECURSIVE chain(_)
chain(ss) == IF ss = <<>> THEN <<>> ELSE Head(ss) \o chain(Tail(ss))

Range(s) == {s[i] : i \in DOMAIN s}

\* the training file's tokens with eos left out
train_tokens_noeos(f) ==
  LET ls == tokenize(f) IN UNION {Range(ls[i]) : i \in DOMAIN ls}

\* vocab = set(t for l in lines for t in l.strip().split(" ")); vocab.add(eos)
train_tokens(f) ==
  LET ls == tokenize(f) IN UNION {Range(ls[i]) : i \in DOMAIN ls} \cup {eos}

\* enumerate(vocab) counting from 1
enumerations_from1(S) ==
  {f \in [S -> 1..Cardinality(S)] : \A x, y \in S : x # y => f[x] # f[y]}

\* {v: i for i, v in enumerate(vocab)}: the set is iterated in any order
enumerations(S) ==
  {f \in [S -> 0..(Cardinality(S) - 1)] : \A x, y \in S : x # y => f[x] # f[y]}

\* for line in lines for w in itertools.chain(line, [eos])
token_stream(f) ==
  LET ls == tokenize(f)
  IN chain([i \in 1..Len(ls) |-> ls[i] \o <<eos>>])

\* a lookup that maps an unknown token to index 0
encode_unk(voc, ws) ==
  [ok |-> TRUE,
   ids |-> [i \in 1..Len(ws) |->
              IF ws[i] \in DOMAIN voc THEN voc[ws[i]] ELSE 0]]

\* np.array([vocab[w] for w in ws], dtype=np.uint32); KeyError on a miss.
\* An index is below len(vocab), far inside the 32-bit width, so no wrap.
encode(voc, ws) ==
  IF \A i \in 1..Len(ws) : ws[i] \in DOMAIN voc
  THEN [ok |-> TRUE, ids |-> [i \in 1..Len(ws) |-> voc[ws[i]]]]
  ELSE [ok |-> FALSE, ids |-> <<>>]

\* --------------------------------------------------------- Python slicing
\* a slice index brought into 0..n, negative ones counted from the end
norm(i, n) == IF i < 0 THEN Max(n + i, 0) ELSE Min(i, n)

\* s[a:b]
slice(s, a, b) == SubSeq(s, norm(a, Len(s)) + 1, norm(b, Len(s)))
\* s[:b]
slice_to(s, b) == SubSeq(s, 1, norm(b, Len(s)))
\* s[a:]
slice_from(s, a) == SubSeq(s, norm(a, Len(s)) + 1, Len(s))

\* a split whose training region stops one test-size from the end
enwik8_split_bad(data) ==
  <<slice_to(data, -num_test_bytes),
    slice(data, -2 * num_test_bytes, -num_test_bytes),
    slice_from(data, -num_test_bytes)>>

\* train_data, valid_data, test_data
enwik8_split(data) ==
  <<slice_to(data, -2 * num_test_bytes),
    slice(data, -2 * num_test_bytes, -num_test_bytes),
    slice_from(data, -num_test_bytes)>>

\* -------------------------------------------------------------- the state
VARIABLES
  dataname,    \* the name callers pass to load_dataset
  corpus,      \* the remote word-level corpus: <<train, valid, test>> files
  zipdata,     \* the remote enwik8 entry
  fs,          \* the cache: path -> entry
  budget,      \* loads each caller may still start
  pc,          \* where each caller's load stands
  proc,        \* the corpus procedure load_dataset chose
  variant,     \* wikitext's dataset argument
  idx,         \* the loop index (filenames / archive members)
  fetched,     \* the remote resources this load requested
  sawAbsent,   \* the paths this load's os.path.exists found missing
  vocab, arrays, regions, error,
  warm,        \* history: the last load that ran undisturbed to its return
  clean,       \* history: this load began on a warm cache, no write since
  coldLens,    \* history: the lengths warm held when this load began
  undisturbed  \* history: no other load wrote the cache during this one

env == <<dataname, corpus, zipdata>>
hist == <<warm, clean, coldLens, undisturbed>>
vars == <<dataname, corpus, zipdata, fs, budget, pc, proc, variant, idx,
          fetched, sawAbsent, vocab, arrays, regions, error,
          warm, clean, coldLens, undisturbed>>

\* ----------------------------------------------------------- cache layout
Dirs == {"wikitext-2", "wikitext-103", "ptb"}

wiki_filenames == <<"wiki.train.tokens", "wiki.valid.tokens", "wiki.test.tokens">>
ptb_filenames == <<"ptb.train.txt", "ptb.valid.txt", "ptb.test.txt">>

filenames(d) == IF d = "ptb" THEN ptb_filenames ELSE wiki_filenames

\* dataname = f"wikitext-{dataset}"
wikitext_dataname(v) == IF v = "2" THEN "wikitext-2" ELSE "wikitext-103"

enwik8_out_file == <<"enwik8.zip">>

Paths ==
  {<<d>> : d \in Dirs}
  \cup {<<d, filenames(d)[i]>> : d \in Dirs, i \in 1..3}
  \cup {enwik8_out_file}

Absent == [kind |-> "absent", content |-> <<>>, complete |-> FALSE]
Directory == [kind |-> "dir", content |-> <<>>, complete |-> TRUE]
File(c, done) == [kind |-> "file", content |-> c, complete |-> done]

\* the directory a word-level load works in
data_dir(p) == IF proc[p] = "ptb" THEN "ptb" ELSE wikitext_dataname(variant[p])

\* os.path.join(save_dir, filenames[i])
file_path(p, i) == <<data_dir(p), filenames(data_dir(p))[i]>>

\* a check that always asks for the download
should_fetch_always(path) == TRUE

\* not os.path.exists(path)
should_fetch(path) == fs[path].kind = "absent"

\* a check that looks at the directory of the path, not at the path
may_download_dir(p, path) == should_fetch(<<path[1]>>)

\* a check-and-create under a lock: absent, and nobody else is downloading
may_download_locked(p, path) ==
  /\ fs[path].kind = "absent"
  /\ \A q \in Procs \ {p} :
       pc[q] \notin {"urlopen", "extractall", "mkdir", "download_and_save",
                     "urlretrieve", "urlretrieve_write"}

\* the check as caller p makes it: nothing but the path's existence is read
may_download(p, path) == should_fetch(path)

\* history: the paths a load's existence checks found missing
Seen(S, path) == IF fs[path].kind = "absent" THEN S \cup {path} ELSE S

Lens(a) == [i \in 1..Len(a) |-> Len(a[i])]

\* ------------------------------------------------------ shared step parts
Raise(p, e) ==
  /\ pc' = [pc EXCEPT ![p] = "raised"]
  /\ error' = [error EXCEPT ![p] = e]
  /\ vocab' = [vocab EXCEPT ![p] = <<>>]
  /\ arrays' = [arrays EXCEPT ![p] = <<>>]
  /\ regions' = [regions EXCEPT ![p] = <<>>]

Goto(p, l) ==
  /\ pc' = [pc EXCEPT ![p] = l]
  /\ UNCHANGED <<error, vocab, arrays, regions>>

\* history kept when caller p writes the cache
Wrote(p) ==
  /\ warm' = [warm EXCEPT !.valid = FALSE]
  /\ clean' = [q \in Procs |-> FALSE]
  /\ undisturbed' = [q \in Procs |-> IF q = p THEN undisturbed[q] ELSE FALSE]
  /\ UNCHANGED coldLens

\* history kept when caller p returns these arrays
Returned(p, a) ==
  /\ warm' = [valid |-> undisturbed[p], lens |-> Lens(a)]
  /\ UNCHANGED <<clean, coldLens, undisturbed>>

\* ------------------------------------------------------------- the steps
\* load_dataset(dataname): lines 12-20
Call(p) ==
  /\ pc[p] \in {"idle", "done", "raised"}
  /\ budget[p] > 0
  /\ budget' = [budget EXCEPT ![p] = @ - 1]
  /\ LET d == load_dataset(dataname)
     IN /\ pc' = [pc EXCEPT ![p] = d.proc]
        /\ proc' = [proc EXCEPT ![p] = d.proc]
        /\ variant' = [variant EXCEPT ![p] = d.variant]
  /\ idx' = [idx EXCEPT ![p] = 0]
  /\ fetched' = [fetched EXCEPT ![p] = {}]
  /\ sawAbsent' = [sawAbsent EXCEPT ![p] = {}]
  /\ vocab' = [vocab EXCEPT ![p] = <<>>]
  /\ arrays' = [arrays EXCEPT ![p] = <<>>]
  /\ regions' = [regions EXCEPT ![p] = <<>>]
  /\ error' = [error EXCEPT ![p] = "none"]
  /\ clean' = [clean EXCEPT ![p] = warm.valid]
  /\ coldLens' = [coldLens EXCEPT ![p] = warm.lens]
  /\ undisturbed' = [undisturbed EXCEPT ![p] = TRUE]
  /\ UNCHANGED <<env, fs, warm>>

\* wikitext: lines 50-56, the argument check and the directory check
Wikitext(p) ==
  /\ pc[p] = "wikitext"
  /\ IF variant[p] \notin {"2", "103"}
     THEN Raise(p, "ValueError") /\ UNCHANGED sawAbsent
     ELSE /\ sawAbsent' = [sawAbsent EXCEPT ![p] = Seen(@, <<data_dir(p)>>)]
          /\ IF may_download(p, <<data_dir(p)>>)
             THEN Goto(p, "urlopen")
             ELSE Goto(p, "_load")
  /\ UNCHANGED <<env, fs, budget, proc, variant, idx, fetched, hist>>

\* wikitext: line 59, request.urlopen(zip_file_url) and r.read()
Urlopen(p) ==
  /\ pc[p] = "urlopen"
  /\ fetched' = [fetched EXCEPT ![p] = @ \cup {<<data_dir(p), "-v1.zip">>}]
  /\ \E ok \in BOOLEAN :
       IF ok THEN Goto(p, "extractall") ELSE Raise(p, "URLError")
  /\ UNCHANGED <<env, fs, budget, proc, variant, idx, sawAbsent, hist>>

\* wikitext: lines 60-61, zf.extractall(save_dir), one archive member a step
\* (member 0 is the directory, members 1..3 the split files)
Extractall(p) ==
  /\ pc[p] = "extractall"
  /\ \E ok \in BOOLEAN :
       IF ~ok
       THEN /\ Raise(p, "OSError")
            /\ UNCHANGED <<fs, idx, hist>>
       ELSE IF idx[p] = 0
            THEN /\ Goto(p, "extractall")
                 /\ idx' = [idx EXCEPT ![p] = 1]
                 /\ IF fs[<<data_dir(p)>>].kind = "absent"
                    THEN /\ fs' = [fs EXCEPT ![<<data_dir(p)>>] = Directory]
                         /\ Wrote(p)
                    ELSE UNCHANGED <<fs, hist>>
            ELSE /\ fs' = [fs EXCEPT ![file_path(p, idx[p])] =
                                        File(corpus[idx[p]], TRUE)]
                 /\ Wrote(p)
                 /\ IF idx[p] = 3
                    THEN Goto(p, "_load") /\ UNCHANGED idx
                    ELSE /\ Goto(p, "extractall")
                         /\ idx' = [idx EXCEPT ![p] = @ + 1]
  /\ UNCHANGED <<env, budget, proc, variant, fetched, sawAbsent>>

\* ptb: lines 84-85, the directory check
Ptb(p) ==
  /\ pc[p] = "ptb"
  /\ sawAbsent' = [sawAbsent EXCEPT ![p] = Seen(@, <<"ptb">>)]
  /\ IF may_download(p, <<"ptb">>)
     THEN /\ Goto(p, "mkdir")
          /\ UNCHANGED idx
     ELSE /\ Goto(p, "download_and_save")
          /\ idx' = [idx EXCEPT ![p] = 1]
  /\ UNCHANGED <<env, fs, budget, proc, variant, fetched, hist>>

\* ptb: line 86, os.mkdir(save_dir)
Mkdir(p) ==
  /\ pc[p] = "mkdir"
  /\ IF fs[<<"ptb">>].kind # "absent"
     THEN Raise(p, "FileExistsError") /\ UNCHANGED <<fs, idx, hist>>
     ELSE /\ fs' = [fs EXCEPT ![<<"ptb">>] = Directory]
          /\ Wrote(p)
          /\ Goto(p, "download_and_save")
          /\ idx' = [idx EXCEPT ![p] = 1]
  /\ UNCHANGED <<env, budget, proc, variant, fetched, sawAbsent>>

\* ptb: lines 79-81, download_and_save's check of one file
DownloadAndSave(p) ==
  /\ pc[p] = "download_and_save"
  /\ sawAbsent' = [sawAbsent EXCEPT ![p] = Seen(@, file_path(p, idx[p]))]
  /\ IF may_download(p, file_path(p, idx[p]))
     THEN /\ Goto(p, "urlretrieve")
          /\ UNCHANGED idx
     ELSE IF idx[p] = 3
          THEN Goto(p, "_load") /\ UNCHANGED idx
          ELSE /\ Goto(p, "download_and_save")
               /\ idx' = [idx EXCEPT ![p] = @ + 1]
  /\ UNCHANGED <<env, fs, budget, proc, variant, fetched, hist>>

\* the file request.urlretrieve writes: lines 80 and 97
out_file(p) == IF proc[p] = "ptb" THEN file_path(p, idx[p]) ELSE enwik8_out_file

\* what the remote end serves for a path
remote(p) == IF proc[p] = "ptb" THEN corpus[idx[p]] ELSE zipdata

\* request.urlretrieve, lines 82 and 99: the request, and the file opened
Urlretrieve(p) ==
  /\ pc[p] = "urlretrieve"
  /\ fetched' = [fetched EXCEPT ![p] = @ \cup {out_file(p)}]
  /\ \E ok \in BOOLEAN :
       IF ok
       THEN /\ fs' = [fs EXCEPT ![out_file(p)] = File(<<>>, FALSE)]
            /\ Wrote(p)
            /\ Goto(p, "urlretrieve_write")
       ELSE /\ Raise(p, "URLError")
            /\ UNCHANGED <<fs, hist>>
  /\ UNCHANGED <<env, budget, proc, variant, idx, sawAbsent>>

\* request.urlretrieve, lines 82 and 99: the body copied to the file; a
\* transfer that breaks off leaves the part written so far
UrlretrieveWrite(p) ==
  /\ pc[p] = "urlretrieve_write"
  /\ Wrote(p)
  /\ \E k \in 0..Len(remote(p)) :
       IF k < Len(remote(p))
       THEN /\ fs' = [fs EXCEPT ![out_file(p)] =
                                   File(SubSeq(remote(p), 1, k), FALSE)]
            /\ Raise(p, "ContentTooShortError")
            /\ UNCHANGED idx
       ELSE /\ fs' = [fs EXCEPT ![out_file(p)] = File(remote(p), TRUE)]
            /\ IF proc[p] = "enwik8"
               THEN Goto(p, "enwik8_read") /\ UNCHANGED idx
               ELSE IF idx[p] = 3
                    THEN Goto(p, "_load") /\ UNCHANGED idx
                    ELSE /\ Goto(p, "download_and_save")
                         /\ idx' = [idx EXCEPT ![p] = @ + 1]
  /\ UNCHANGED <<env, budget, proc, variant, fetched, sawAbsent>>

\* enwik8: lines 97-98, the archive check
Enwik8(p) ==
  /\ pc[p] = "enwik8"
  /\ sawAbsent' = [sawAbsent EXCEPT ![p] = Seen(@, enwik8_out_file)]
  /\ IF may_download(p, enwik8_out_file)
     THEN Goto(p, "urlretrieve")
     ELSE Goto(p, "enwik8_read")
  /\ UNCHANGED <<env, fs, budget, proc, variant, idx, fetched, hist>>

\* enwik8: lines 101-111, the entry read, the three regions, the vocabulary
Enwik8Read(p) ==
  /\ pc[p] = "enwik8_read"
  /\ IF ~fs[enwik8_out_file].complete
     THEN Raise(p, "BadZipFile")
     ELSE LET r == enwik8_split(fs[enwik8_out_file].content)
          IN /\ regions' = [regions EXCEPT ![p] = r]
             /\ \E voc \in enumerations(Range(r[1])) :
                  vocab' = [vocab EXCEPT ![p] = voc]
             /\ pc' = [pc EXCEPT ![p] = "enwik8_to_array"]
             /\ UNCHANGED <<error, arrays>>
  /\ UNCHANGED <<env, fs, budget, proc, variant, idx, fetched, sawAbsent, hist>>

\* enwik8: lines 113-116, to_array of train, valid and test, and the return
Enwik8ToArray(p) ==
  /\ pc[p] = "enwik8_to_array"
  /\ LET a == [i \in 1..3 |-> encode(vocab[p], regions[p][i])]
         bad == {i \in 1..3 : ~a[i].ok}
     IN IF bad # {}
        THEN /\ Raise(p, "KeyError")
             /\ idx' = [idx EXCEPT ![p] = CHOOSE i \in bad : \A j \in bad : i <= j]
             /\ UNCHANGED hist
        ELSE /\ arrays' = [arrays EXCEPT ![p] = [i \in 1..3 |-> a[i].ids]]
             /\ pc' = [pc EXCEPT ![p] = "done"]
             /\ Returned(p, [i \in 1..3 |-> a[i].ids])
             /\ UNCHANGED <<error, vocab, regions, idx>>
  /\ UNCHANGED <<env, fs, budget, proc, variant, fetched, sawAbsent>>

\* _load: lines 25-29, the vocabulary from the first file
Load(p) ==
  /\ pc[p] = "_load"
  /\ IF fs[file_path(p, 1)].kind # "file"
     THEN Raise(p, "FileNotFoundError") /\ UNCHANGED idx
     ELSE /\ \E voc \in enumerations(train_tokens(fs[file_path(p, 1)].content)) :
               vocab' = [vocab EXCEPT ![p] = voc]
          /\ pc' = [pc EXCEPT ![p] = "to_array"]
          /\ idx' = [idx EXCEPT ![p] = 1]
          /\ UNCHANGED <<error, arrays, regions>>
  /\ UNCHANGED <<env, fs, budget, proc, variant, fetched, sawAbsent, hist>>

\* _load: lines 31-40, to_array of one file, and the return after the third
ToArray(p) ==
  /\ pc[p] = "to_array"
  /\ IF fs[file_path(p, idx[p])].kind # "file"
     THEN Raise(p, "FileNotFoundError") /\ UNCHANGED <<idx, hist>>
     ELSE LET a == encode(vocab[p], token_stream(fs[file_path(p, idx[p])].content))
          IN IF ~a.ok
             THEN Raise(p, "KeyError") /\ UNCHANGED <<idx, hist>>
             ELSE /\ arrays' = [arrays EXCEPT ![p] = Append(@, a.ids)]
                  /\ UNCHANGED <<error, vocab, regions>>
                  /\ IF idx[p] = 3
                     THEN /\ pc' = [pc EXCEPT ![p] = "done"]
                          /\ Returned(p, Append(arrays[p], a.ids))
                          /\ UNCHANGED idx
                     ELSE /\ pc' = [pc EXCEPT ![p] = "to_array"]
                          /\ idx' = [idx EXCEPT ![p] = @ + 1]
                          /\ UNCHANGED hist
  /\ UNCHANGED <<env, fs, budget, proc, variant, fetched, sawAbsent>>

Next ==
  \E p \in Procs :
    \/ Call(p)
    \/ Wikitext(p)
    \/ Urlopen(p)
    \/ Extractall(p)
    \/ Ptb(p)
    \/ Mkdir(p)
    \/ DownloadAndSave(p)
    \/ Urlretrieve(p)
    \/ UrlretrieveWrite(p)
    \/ Enwik8(p)
    \/ Enwik8Read(p)
    \/ Enwik8ToArray(p)
    \/ Load(p)
    \/ ToArray(p)

\* ------------------------------------------------------------- the inputs
\* the corpora whose three files hold at most MaxChars characters together
Corpora ==
  UNION {{<<t, v, x>> : t \in [1..n[1] -> Chars], v \in [1..n[2] -> Chars],
                         x \in [1..n[3] -> Chars]} :
         n \in {m \in [1..3 -> 0..MaxChars] : m[1] + m[2] + m[3] <= MaxChars}}

Datas == UNION {[1..k -> Bytes] : k \in 0..MaxData}

NoCorpus == <<<<>>, <<>>, <<>>>>

\* the corpora served in the runs that start on an empty cache
RemoteCorpora ==
  {<<<<"a", "\n">>, <<"a", "\n">>, <<"a">>>>,
   <<<<"a", "\n">>, <<"\n">>, <<>>>>}

RemoteDatas == {<<0, 0, 0, 0, 0>>, <<0, 1, 0, 1, 0>>}

EmptyCache == [path \in Paths |-> Absent]

\* the cache as a completed download of the dataset leaves it
Populated(name, c, z) ==
  LET d == load_dataset(name)
      dir == IF d.proc = "ptb" THEN "ptb" ELSE wikitext_dataname(d.variant)
  IN [path \in Paths |->
        IF d.proc = "enwik8"
        THEN (IF path = enwik8_out_file THEN File(z, TRUE) ELSE Absent)
        ELSE IF path = <<dir>> THEN Directory
        ELSE IF \E i \in 1..3 : path = <<dir, filenames(dir)[i]>>
        THEN File(c[CHOOSE i \in 1..3 : path = <<dir, filenames(dir)[i]>>], TRUE)
        ELSE Absent]

InitCallers ==
  /\ pc = [p \in Procs |-> "idle"]
  /\ proc = [p \in Procs |-> "none"]
  /\ variant = [p \in Procs |-> "none"]
  /\ idx = [p \in Procs |-> 0]
  /\ fetched = [p \in Procs |-> {}]
  /\ sawAbsent = [p \in Procs |-> {}]
  /\ vocab = [p \in Procs |-> <<>>]
  /\ arrays = [p \in Procs |-> <<>>]
  /\ regions = [p \in Procs |-> <<>>]
  /\ error = [p \in Procs |-> "none"]
  /\ warm = [valid |-> FALSE, lens |-> <<>>]
  /\ clean = [p \in Procs |-> FALSE]
  /\ coldLens = [p \in Procs |-> <<>>]
  /\ undisturbed = [p \in Procs |-> FALSE]

\* one caller, one load, of any corpus: on a populated cache, or on an empty
\* one with the remote end serving one of RemoteCorpora / RemoteDatas
Init ==
  /\ InitCallers
  /\ budget = [p \in Procs |-> IF p = 1 THEN 1 ELSE 0]
  /\ dataname \in Names
  /\ \E cold \in BOOLEAN :
       /\ IF load_dataset(dataname).proc = "enwik8"
          THEN /\ corpus = NoCorpus
               /\ zipdata \in (IF cold THEN RemoteDatas ELSE Datas)
          ELSE /\ corpus \in (IF cold THEN RemoteCorpora ELSE Corpora)
               /\ zipdata = <<>>
       /\ fs = IF cold THEN EmptyCache ELSE Populated(dataname, corpus, zipdata)

Spec == Init /\ [][Next]_vars

\* two callers, MaxLoads loads each of one dataset, starting on an empty cache
InitCache ==
  /\ InitCallers
  /\ budget = [p \in Procs |-> MaxLoads]
  /\ dataname \in {"enwik8", "ptb", "wikitext2"}
  /\ IF dataname = "enwik8"
     THEN corpus = NoCorpus /\ zipdata \in RemoteDatas
     ELSE corpus \in RemoteCorpora /\ zipdata = <<>>
  /\ fs = EmptyCache

SpecCache == InitCache /\ [][Next]_vars

\* ============================================================ properties
\* What the properties read off a file, stated on character positions and
\* not through readlines / strip / split.

Ink(f, i) == f[i] \notin Whitespace

\* positions i <= j of one line
SameLine(f, i, j) == \A m \in i..(j - 1) : f[m] # "\n"

\* position i lies between the first and the last non-whitespace character
\* of its line
Inside(f, i) ==
  /\ \E a \in 1..i : Ink(f, a) /\ SameLine(f, a, i)
  /\ \E b \in i..Len(f) : Ink(f, b) /\ SameLine(f, i, b)

InteriorSpaces(f) == {i \in 1..Len(f) : f[i] = " " /\ Inside(f, i)}

\* the last position of every line
LineEnds(f) == {i \in 1..Len(f) : f[i] = "\n" \/ i = Len(f)}

LineStart(f, i) ==
  LET nl == {m \in 1..(i - 1) : f[m] = "\n"}
  IN IF nl = {} THEN 1 ELSE 1 + CHOOSE m \in nl : \A k \in nl : k <= m

BlankLine(f, i) == \A m \in LineStart(f, i)..i : ~Ink(f, m)

\* the whitespace-delimited words of a file
WordStarts(f) ==
  {i \in 1..Len(f) : Ink(f, i) /\ (i = 1 \/ ~Ink(f, i - 1))}

Words(f) ==
  {SubSeq(f, r[1], r[2]) :
     r \in {q \in (1..Len(f)) \X (1..Len(f)) :
              /\ q[1] <= q[2]
              /\ \A m \in q[1]..q[2] : Ink(f, m)
              /\ (q[1] = 1 \/ ~Ink(f, q[1] - 1))
              /\ (q[2] = Len(f) \/ ~Ink(f, q[2] + 1))}}

\* the single-space-separated fields of the stripped lines of a file
FieldChar(f, i) == Inside(f, i) /\ f[i] # " "

Fields(f) ==
  {SubSeq(f, r[1], r[2]) :
     r \in {q \in (1..Len(f)) \X (1..Len(f)) :
              /\ q[1] <= q[2]
              /\ \A m \in q[1]..q[2] : FieldChar(f, m)
              /\ (q[1] = 1 \/ ~FieldChar(f, q[1] - 1))
              /\ (q[2] = Len(f) \/ ~FieldChar(f, q[2] + 1))}}
  \cup (IF \/ \E i \in LineEnds(f) : BlankLine(f, i)
           \/ \E i \in InteriorSpaces(f) : i + 1 \in InteriorSpaces(f)
        THEN {<<>>} ELSE {})

WordLevel(p) == proc[p] \in {"ptb", "wikitext"}

\* the file behind split i of caller p's corpus, as the cache holds it
SplitFile(p, i) == fs[file_path(p, i)].content

Finished(p) == pc[p] \in {"done", "raised"}

\* ------------------------------------------------------------------- C1
\* C1: in every load that returns, every element of train_ids, valid_ids and
\* test_ids is an index i with 0 <= i < len(vocabulary), and is the index of
\* some key of the returned vocabulary.
C1_ValidIndices ==
  \A p \in Procs :
    pc[p] = "done" =>
      \A s \in 1..3 : \A j \in 1..Len(arrays[p][s]) :
        /\ arrays[p][s][j] \in 0..(Cardinality(DOMAIN vocab[p]) - 1)
        /\ \E w \in DOMAIN vocab[p] : vocab[p][w] = arrays[p][s][j]

\* a word-level load has returned arrays that use two different indices
C1_Witness ==
  \E p \in Procs :
    /\ pc[p] = "done"
    /\ WordLevel(p)
    /\ Len(arrays[p][2]) >= 2
    /\ arrays[p][2][1] # arrays[p][2][2]

\* ------------------------------------------------------------------- C8
\* C8: load(name) sends "enwik8" to enwik8, "ptb" to PTB, "wikitext2" to
\* WikiText-2 and every other name to WikiText-103, and wikitext's
\* argument check never raises through load(name).
C8_Dispatch ==
  \A p \in Procs :
    pc[p] # "idle" =>
      /\ proc[p] = (CASE dataname = "enwik8" -> "enwik8"
                      [] dataname = "ptb" -> "ptb"
                      [] OTHER -> "wikitext")
      /\ variant[p] = (CASE dataname \in {"enwik8", "ptb"} -> "none"
                         [] dataname = "wikitext2" -> "2"
                         [] OTHER -> "103")
      /\ error[p] # "ValueError"

\* a load of an unrecognised name has returned from the WikiText-103 path
C8_Witness ==
  \E p \in Procs :
    /\ dataname = "text8"
    /\ pc[p] = "done"
    /\ proc[p] = "wikitext"
    /\ variant[p] = "103"
    /\ fs[<<"wikitext-103", "wiki.train.tokens">>].kind = "file"

\* ------------------------------------------------------------------- C4
\* C4: enwik8's train, valid and test regions are contiguous, do not
\* overlap and in that order make up the whole corpus, whatever its length
\* L; when L exceeds twice the split size, valid and test hold exactly the
\* split size and train the first L - 2 * size bytes; the returned arrays
\* have the regions' lengths.
C4_Regions ==
  \A p \in Procs :
    regions[p] # <<>> =>
      LET data == fs[enwik8_out_file].content
          L == Len(data)
          r == regions[p]
      IN /\ r[1] \o r[2] \o r[3] = data
         /\ L > 2 * num_test_bytes =>
              /\ Len(r[2]) = num_test_bytes
              /\ Len(r[3]) = num_test_bytes
              /\ r[1] = SubSeq(data, 1, L - 2 * num_test_bytes)
         /\ pc[p] = "done" =>
              /\ Lens(arrays[p]) = Lens(r)
              /\ Len(arrays[p][1]) + Len(arrays[p][2]) + Len(arrays[p][3]) = L

\* an enwik8 load of a corpus longer than two split sizes has returned
C4_Witness ==
  \E p \in Procs :
    /\ pc[p] = "done"
    /\ proc[p] = "enwik8"
    /\ Len(fs[enwik8_out_file].content) > 2 * num_test_bytes + 1
    /\ Len(regions[p][1]) >= 2

\* ------------------------------------------------------------------- C6
\* C6: the vocabulary of a load is a bijection from its keys onto
\* {0, ..., n-1}; its keys are the tokens of the training split (the
\* single-space-separated fields of its stripped lines) and "<eos>" for a
\* word-level corpus, the bytes of the training region for enwik8, and
\* nothing else.
C6_Vocabulary ==
  \A p \in Procs :
    pc[p] \in {"to_array", "enwik8_to_array", "done"} =>
      LET keys == DOMAIN vocab[p]
          n == Cardinality(keys)
      IN /\ \A w \in keys : vocab[p][w] \in 0..(n - 1)
         /\ \A i \in 0..(n - 1) : \E w \in keys : vocab[p][w] = i
         /\ \A v, w \in keys : v # w => vocab[p][v] # vocab[p][w]
         /\ WordLevel(p) => keys = Fields(SplitFile(p, 1)) \cup {eos}
         /\ proc[p] = "enwik8" =>
              LET data == fs[enwik8_out_file].content
              IN keys = {data[i] : i \in 1..(Len(data) - 2 * num_test_bytes)}

\* a word-level load has returned while the validation split holds a token
\* the training split does not
C6_Witness ==
  \E p \in Procs :
    /\ pc[p] = "done"
    /\ WordLevel(p)
    /\ Cardinality(DOMAIN vocab[p]) >= 3
    /\ Fields(SplitFile(p, 2)) \ Fields(SplitFile(p, 1)) # {}

\* ------------------------------------------------------------------- C3
\* the end of the k-th line of a file
KthLineEnd(f, k) ==
  CHOOSE i \in LineEnds(f) : Cardinality({j \in LineEnds(f) : j <= i}) = k

\* the interior spaces of the k-th line
LineSpaces(f, k) ==
  {m \in InteriorSpaces(f) :
     LineStart(f, KthLineEnd(f, k)) <= m /\ m <= KthLineEnd(f, k)}

\* the whitespace-delimited words of the k-th line
LineWords(f, k) ==
  {m \in WordStarts(f) :
     LineStart(f, KthLineEnd(f, k)) <= m /\ m <= KthLineEnd(f, k)}

\* the integers the k-th line of a file adds to caller p's array
LineIds(p, f, k) == encode(vocab[p], tokenize(f)[k] \o <<eos>>).ids

\* C3 as claimed: every line of a split file, blank lines and lines with
\* consecutive spaces included, contributes its number of
\* whitespace-delimited tokens plus one, so a split array is as long as the
\* file's whitespace-token count plus its number of lines.
C3_Original ==
  \A p \in Procs :
    WordLevel(p) =>
      \A s \in 1..Len(arrays[p]) :
        LET f == SplitFile(p, s)
        IN /\ \A k \in 1..Cardinality(LineEnds(f)) :
                Len(LineIds(p, f, k)) = Cardinality(LineWords(f, k)) + 1
           /\ Len(arrays[p][s]) =
                Cardinality(WordStarts(f)) + Cardinality(LineEnds(f))

\* C3 as amended: a line contributes one integer for each field between the
\* single spaces of the stripped line, and one for "<eos>": its number of
\* interior spaces plus two (a blank line: two).  A split array is as long
\* as the file's interior spaces plus twice its number of lines.  A line's
\* count is its whitespace-token count plus one when it has one word more
\* than it has interior spaces: a line that is not blank and whose words
\* are separated by one space each.
C3_LineCounts ==
  \A p \in Procs :
    WordLevel(p) =>
      \A s \in 1..Len(arrays[p]) :
        LET f == SplitFile(p, s)
        IN /\ \A k \in 1..Cardinality(LineEnds(f)) :
                /\ Len(LineIds(p, f, k)) = Cardinality(LineSpaces(f, k)) + 2
                /\ (Len(LineIds(p, f, k)) = Cardinality(LineWords(f, k)) + 1)
                     <=> (Cardinality(LineWords(f, k)) =
                            Cardinality(LineSpaces(f, k)) + 1)
           /\ Len(arrays[p][s]) =
                Cardinality(InteriorSpaces(f)) + 2 * Cardinality(LineEnds(f))

\* a load has returned after encoding a split with a blank line or with two
\* spaces in a row, longer than its words and lines add up to
C3_Witness ==
  \E p \in Procs :
    /\ pc[p] = "done"
    /\ WordLevel(p)
    /\ \E s \in 1..3 :
         Len(arrays[p][s]) >
           Cardinality(WordStarts(SplitFile(p, s)))
             + Cardinality(LineEnds(SplitFile(p, s)))

\* ------------------------------------------------------------------- C5
\* a load that ended with the cache files read: returned, or a KeyError
Decided(p) == Finished(p) /\ error[p] \in {"none", "KeyError"}

\* enwik8: a byte of the last two regions that the training region lacks
UnseenByte ==
  LET data == fs[enwik8_out_file].content
      L == Len(data)
      cut == Max(L - 2 * num_test_bytes, 0)
  IN \E i \in (cut + 1)..L : \A j \in 1..cut : data[j] # data[i]

\* C5 as claimed: with the cache files present, a load fails with KeyError
\* if and only if some whitespace-delimited word of the validation or test
\* split (some byte, for enwik8) does not occur in the training split.
C5_Original ==
  \A p \in Procs :
    Decided(p) =>
      (error[p] = "KeyError" <=>
         IF WordLevel(p)
         THEN \E w \in Words(SplitFile(p, 2)) \cup Words(SplitFile(p, 3)) :
                w \notin Words(SplitFile(p, 1))
         ELSE UnseenByte)

\* C5 as amended: the load fails with KeyError if and only if some token of
\* the validation or test split is neither a token of the training split
\* nor "<eos>", a token being a field between the single spaces of a
\* stripped line, the empty string included (for enwik8: a byte of the
\* training region); the training split never raises it; a load that
\* raised holds no vocabulary and no arrays.
C5_KeyError ==
  \A p \in Procs :
    /\ Decided(p) =>
         /\ error[p] = "KeyError" <=>
              IF WordLevel(p)
              THEN \E w \in Fields(SplitFile(p, 2)) \cup Fields(SplitFile(p, 3)) :
                     w \notin Fields(SplitFile(p, 1)) \cup {eos}
              ELSE UnseenByte
         /\ error[p] = "KeyError" => idx[p] \in {2, 3}
    /\ pc[p] = "raised" => vocab[p] = <<>> /\ arrays[p] = <<>>

\* a word-level load has raised KeyError although every whitespace-delimited
\* word of its validation and test splits occurs in the training split
C5_Witness ==
  \E p \in Procs :
    /\ pc[p] = "raised"
    /\ error[p] = "KeyError"
    /\ WordLevel(p)
    /\ Words(SplitFile(p, 1)) # {}
    /\ Words(SplitFile(p, 2)) \cup Words(SplitFile(p, 3))
         \subseteq Words(SplitFile(p, 1))

CheckPcs == {"wikitext", "ptb", "download_and_save", "enwik8"}

\* the path a load is about to test for existence
CheckPath(p) ==
  CASE pc[p] = "wikitext" -> <<data_dir(p)>>
    [] pc[p] = "ptb" -> <<"ptb">>
    [] pc[p] = "download_and_save" -> file_path(p, idx[p])
    [] OTHER -> enwik8_out_file

\* C7: nothing excludes two loads of one missing dataset from each other: a
\* load at its existence check, the entry absent, can always take the
\* download branch, whatever the other load is doing, and a load in its
\* download branch can always take its next step, so both may find the
\* entry absent before either writes it and then both write it.
C7_Unguarded ==
  \A p \in Procs :
    /\ (pc[p] \in CheckPcs /\ fs[CheckPath(p)].kind = "absent") =>
         ENABLED (/\ Wikitext(p) \/ Ptb(p) \/ DownloadAndSave(p) \/ Enwik8(p)
                  /\ pc'[p] \in {"urlopen", "mkdir", "urlretrieve"})
    /\ pc[p] \in {"urlopen", "extractall", "mkdir", "urlretrieve",
                  "urlretrieve_write"} =>
         ENABLED (Urlopen(p) \/ Extractall(p) \/ Mkdir(p) \/ Urlretrieve(p)
                  \/ UrlretrieveWrite(p))

\* both loads found the same file missing, and both have opened it for
\* writing
C7_Witness ==
  /\ \A p \in Procs : pc[p] = "urlretrieve_write"
  /\ out_file(1) = out_file(2)
  /\ \A p \in Procs : out_file(p) \in sawAbsent[p] /\ out_file(p) \in fetched[p]

\* ------------------------------------------------------------------- C9
SplitPaths(p) == {file_path(p, i) : i \in 1..3}

\* C9 as claimed: a word-level load that got as far as reading its files
\* made a network fetch if and only if its cache directory did not exist
\* when it checked.
C9_Original ==
  \A p \in Procs :
    (WordLevel(p) /\ pc[p] \in {"_load", "to_array", "done"}) =>
      (fetched[p] # {} <=> <<data_dir(p)>> \in sawAbsent[p])

\* C9 as amended: a WikiText load requests the archive if and only if its
\* directory did not exist when it checked.  A PTB load requests each split
\* file if and only if that file did not exist when the load checked it,
\* whether or not the directory existed.
C9_FetchRule ==
  \A p \in Procs :
    /\ proc[p] = "wikitext" =>
         /\ fetched[p] # {} => <<data_dir(p)>> \in sawAbsent[p]
         /\ <<data_dir(p)>> \in sawAbsent[p] =>
              (fetched[p] = {<<data_dir(p), "-v1.zip">>} \/ pc[p] = "urlopen")
    /\ proc[p] = "ptb" =>
         /\ fetched[p] \subseteq sawAbsent[p] \cap SplitPaths(p)
         /\ \A path \in sawAbsent[p] \cap SplitPaths(p) :
              path \in fetched[p] \/ (pc[p] = "urlretrieve" /\ path = out_file(p))

\* a PTB load found its directory in place and still fetched a split file
C9_Witness ==
  \E p \in Procs :
    /\ proc[p] = "ptb"
    /\ pc[p] = "done"
    /\ <<"ptb">> \notin sawAbsent[p]
    /\ fetched[p] # {}

\* ------------------------------------------------------------------ C10
\* the files a load reads once its download part is over
ReadSet(p) == IF WordLevel(p) THEN SplitPaths(p) ELSE {enwik8_out_file}

\* the load did not download the path: its existence check passed
Skipped(p, path) ==
  IF proc[p] = "wikitext" THEN fetched[p] = {} ELSE path \notin fetched[p]

\* C10: whenever a load skips a download because its existence check
\* passed, every file it then reads is present and completely written.
C10_CompleteCache ==
  \A p \in Procs :
    pc[p] \in {"_load", "to_array", "enwik8_read"} =>
      \A path \in ReadSet(p) :
        Skipped(p, path) => fs[path].kind = "file" /\ fs[path].complete

====
